---- MODULE Spec2Model ----
(***************************************************************************)
(* The ouh program (programs/ouh/src/lib.rs): a phone-number-indexed       *)
(* payments ledger on an Anchor/Solana host.  Three kinds of accounts      *)
(* (Config, UserAccount, TransactionAccount) live at program-derived       *)
(* addresses; five instructions read and write them.  One invocation is    *)
(* one atomic step: the host validates the declared accounts, runs the     *)
(* handler, and commits the writes only when the handler returns Ok; a     *)
(* rejected or failed invocation leaves every account as it was.           *)
(***************************************************************************)
EXTENDS Integers, Sequences, FiniteSets, TLC

(* ---------------------------------------------------------------------- *)
(* Bounds of the model                                                     *)
(* ---------------------------------------------------------------------- *)

\* Signing principals (Pubkey) are 1..MaxSigners.
MaxSigners == 2
\* Phone numbers ([u8; 14]) are 1..MaxPhones.
MaxPhones == 2
\* Transaction ids ([u8; 16]) are 1..MaxTx.
MaxTx == 2
\* The largest value of the amount type.  The program uses u64; the model
\* keeps the type's shape (0..U64Max, checked addition fails above U64Max)
\* at a width the checker can enumerate.
U64Max == 3
\* Clock::get()?.unix_timestamp returns a value in 0..MaxTime.
MaxTime == 0

Signers == 1..MaxSigners
Phones == 1..MaxPhones
TxIds == 1..MaxTx
U64 == 0..U64Max
Times == 0..MaxTime
\* u16 fee rates offered to initialize_config: the largest rate the
\* specification allows and the first one above it.
FeeBps == {10000, 10001}
\* Limits offered to initialize_config (u64): min_limit and max_limit.
MinLimits == {1, U64Max}
MaxLimits == {U64Max - 1}
\* pin_hash values ([u8; 32]) and client-computed fees (u64).
PinHashes == {7}
Fees == {0}
\* Option<u64>: None is << >>, Some(v) is << v >>.
OptU64 == {<< >>} \cup {<< v >> : v \in {1}}

(* ---------------------------------------------------------------------- *)
(* Seeds, enums, results                                                   *)
(* ---------------------------------------------------------------------- *)

USER_SEED == "user"
TRANSACTION_SEED == "transaction"
CONFIG_SEED == "config"

UserStatus == {"Active", "Suspended"}
TransactionType == {"Crypto", "Airtime"}
TransactionStatus == {"Pending", "Completed", "Failed"}

\* The errors the program declares.
OuhError == {"InvalidPhoneFormat", "TransactionLimitOutOfBounds", "ContractPaused",
             "UserSuspended", "InsufficientBalance", "InvalidPin"}
\* What the host reports when it rejects the accounts of an invocation or
\* the handler aborts: `init` on an address that already holds an account,
\* an Account<T> that was never created, a seeds constraint that does not
\* match the address passed, a panic.
HostError == {"AccountAlreadyInUse", "AccountNotInitialized", "ConstraintSeeds", "Panic"}

VARIABLES
    config,     \* the account at seeds [CONFIG_SEED]: a function on {} or {CONFIG_SEED}
    users,      \* the accounts at seeds [USER_SEED, phone]: phone -> UserAccount
    txs         \* the accounts at seeds [TRANSACTION_SEED, tx_id]: tx_id -> TransactionAccount

vars == << config, users, txs >>

\* An address is named by the seeds it is derived from, so a user account
\* address is a phone number and a transaction account address a tx id.

Init ==
    /\ config = << >>
    /\ users = << >>
    /\ txs = << >>

\* u64::wrapping_add in place of checked_add: the sum modulo the type's range.
wrapping_add(a, b) == << (a + b) % (U64Max + 1) >>

\* u64::checked_add: None (<< >>) on overflow, Some(sum) (<< sum >>) otherwise.
checked_add(a, b) == IF a + b > U64Max THEN << >> ELSE << a + b >>

(* ---------------------------------------------------------------------- *)
(* Account layouts and sizes                                               *)
(* ---------------------------------------------------------------------- *)

\* The fields of the three #[account] structs, in declaration order, each
\* with its Rust type.
UserAccountFields ==
    << [name |-> "phone_number", type |-> "[u8; 14]"],
       [name |-> "wallet", type |-> "Pubkey"],
       [name |-> "pin_hash", type |-> "[u8; 32]"],
       [name |-> "total_volume", type |-> "u64"],
       [name |-> "registered_at", type |-> "i64"],
       [name |-> "status", type |-> "UserStatus"] >>

TransactionAccountFields ==
    << [name |-> "tx_id", type |-> "[u8; 16]"],
       [name |-> "user_phone", type |-> "[u8; 14]"],
       [name |-> "tx_type", type |-> "TransactionType"],
       [name |-> "amount_ngn", type |-> "u64"],
       [name |-> "amount_usdc", type |-> "Option<u64>"],
       [name |-> "status", type |-> "TransactionStatus"],
       [name |-> "timestamp", type |-> "i64"],
       [name |-> "fee", type |-> "u64"] >>

ConfigFields ==
    << [name |-> "admin", type |-> "Pubkey"],
       [name |-> "crypto_fee_bps", type |-> "u16"],
       [name |-> "airtime_fee_bps", type |-> "u16"],
       [name |-> "min_limit", type |-> "u64"],
       [name |-> "max_limit", type |-> "u64"],
       [name |-> "paused", type |-> "bool"] >>

\* The serialized size with Option<u64> written without its one-byte tag.
size_of_untagged_option(type) ==
    CASE type = "[u8; 14]" -> 14
      [] type = "[u8; 16]" -> 16
      [] type = "[u8; 32]" -> 32
      [] type = "Pubkey" -> 32
      [] type \in {"u64", "i64"} -> 8
      [] type = "u16" -> 2
      [] type = "bool" -> 1
      [] type = "Option<u64>" -> 8
      [] type \in {"UserStatus", "TransactionType", "TransactionStatus"} -> 1

\* The serialized (Borsh) size in bytes of a value of each field type: byte
\* arrays and integers at their width, a Pubkey as 32 bytes, a bool and a
\* fieldless enum as one byte, an Option as a one-byte tag and the payload.
size_of(type) ==
    CASE type = "[u8; 14]" -> 14
      [] type = "[u8; 16]" -> 16
      [] type = "[u8; 32]" -> 32
      [] type = "Pubkey" -> 32
      [] type \in {"u64", "i64"} -> 8
      [] type = "u16" -> 2
      [] type = "bool" -> 1
      [] type = "Option<u64>" -> 1 + 8
      [] type \in {"UserStatus", "TransactionType", "TransactionStatus"} -> 1

\* The account discriminator that #[account] puts before the fields.
DISCRIMINATOR == 8

\* The allocation sizes the program declares, term by term.
UserAccount_LEN == 8 + 14 + 32 + 32 + 8 + 8 + 1
TransactionAccount_LEN == 8 + 16 + 14 + 1 + 8 + 9 + 1 + 8 + 8
Config_LEN == 8 + 32 + 2 + 2 + 8 + 8 + 1

(* ---------------------------------------------------------------------- *)
(* initialize_config                                                       *)
(* ---------------------------------------------------------------------- *)

\* InitializeConfig with init_if_needed in place of init: an existing Config
\* is admitted and written again.
InitializeConfigIfNeeded == "Ok"

\* The accounts of initialize_config: `init` of the config account.
InitializeConfig ==
    IF CONFIG_SEED \in DOMAIN config THEN "AccountAlreadyInUse" ELSE "Ok"

\* The body of initialize_config: the six fields as written.
initialize_config_handler(admin, crypto_fee_bps, airtime_fee_bps, min_limit, max_limit) ==
    [result |-> "Ok",
     config |-> [admin |-> admin,
                 crypto_fee_bps |-> crypto_fee_bps,
                 airtime_fee_bps |-> airtime_fee_bps,
                 min_limit |-> min_limit,
                 max_limit |-> max_limit,
                 paused |-> FALSE]]

initialize_config_result(admin, crypto_fee_bps, airtime_fee_bps, min_limit, max_limit) ==
    IF InitializeConfig # "Ok"
    THEN InitializeConfig
    ELSE initialize_config_handler(admin, crypto_fee_bps, airtime_fee_bps, min_limit, max_limit).result

initialize_config(admin, crypto_fee_bps, airtime_fee_bps, min_limit, max_limit) ==
    IF initialize_config_result(admin, crypto_fee_bps, airtime_fee_bps, min_limit, max_limit) = "Ok"
    THEN /\ config' = (CONFIG_SEED :>
                initialize_config_handler(admin, crypto_fee_bps, airtime_fee_bps, min_limit, max_limit).config)
         /\ UNCHANGED << users, txs >>
    ELSE UNCHANGED vars

(* ---------------------------------------------------------------------- *)
(* register_user                                                           *)
(* ---------------------------------------------------------------------- *)

\* RegisterUser with init_if_needed in place of init: an existing account is
\* admitted and written again.
RegisterUserIfNeeded(user_account, phone_number) ==
    IF user_account # phone_number THEN "ConstraintSeeds" ELSE "Ok"

\* The accounts of register_user: user_account is the address passed; `init`
\* checks it against the seeds [USER_SEED, phone_number], then creates it.
RegisterUser(user_account, phone_number) ==
    IF user_account # phone_number THEN "ConstraintSeeds"
    ELSE IF user_account \in DOMAIN users THEN "AccountAlreadyInUse"
    ELSE "Ok"

\* The body of register_user; now is Clock::get()?.unix_timestamp.
register_user_handler(user, phone_number, pin_hash, now) ==
    [result |-> "Ok",
     user_account |-> [phone_number |-> phone_number,
                       wallet |-> user,
                       pin_hash |-> pin_hash,
                       total_volume |-> 0,
                       registered_at |-> now,
                       status |-> "Active"]]

register_user_result(user, user_account, phone_number, pin_hash, now) ==
    IF RegisterUser(user_account, phone_number) # "Ok"
    THEN RegisterUser(user_account, phone_number)
    ELSE register_user_handler(user, phone_number, pin_hash, now).result

register_user(user, user_account, phone_number, pin_hash, now) ==
    IF register_user_result(user, user_account, phone_number, pin_hash, now) = "Ok"
    THEN /\ users' = (user_account :>
                register_user_handler(user, phone_number, pin_hash, now).user_account) @@ users
         /\ UNCHANGED << config, txs >>
    ELSE UNCHANGED vars

(* ---------------------------------------------------------------------- *)
(* create_transaction                                                      *)
(* ---------------------------------------------------------------------- *)

\* CreateTransaction without the seeds constraint on user_account: any
\* existing user account is admitted, whatever user_phone is.
CreateTransactionAnyUser(user, transaction_account, user_account, tx_id, user_phone) ==
    IF transaction_account # tx_id THEN "ConstraintSeeds"
    ELSE IF transaction_account \in DOMAIN txs THEN "AccountAlreadyInUse"
    ELSE IF user_account \notin DOMAIN users \/ CONFIG_SEED \notin DOMAIN config
    THEN "AccountNotInitialized"
    ELSE "Ok"

\* The accounts of create_transaction: transaction_account is created at
\* the address derived from tx_id; user_account and config must exist;
\* user_account must be the address derived from user_phone.  The signer
\* user pays for the new account and is not compared with anything.
CreateTransaction(user, transaction_account, user_account, tx_id, user_phone) ==
    IF transaction_account # tx_id THEN "ConstraintSeeds"
    ELSE IF transaction_account \in DOMAIN txs THEN "AccountAlreadyInUse"
    ELSE IF user_account \notin DOMAIN users \/ CONFIG_SEED \notin DOMAIN config
    THEN "AccountNotInitialized"
    ELSE IF user_account # user_phone THEN "ConstraintSeeds"
    ELSE "Ok"

\* create_transaction without the paused check.
create_transaction_ignoring_pause(cfg, user_account, tx_id, user_phone, tx_type, amount_ngn, amount_usdc, fee, now) ==
    IF amount_ngn < cfg.min_limit \/ amount_ngn > cfg.max_limit
    THEN [result |-> "TransactionLimitOutOfBounds"]
    ELSE IF user_account.status # "Active"
    THEN [result |-> "UserSuspended"]
    ELSE [result |-> "Ok",
          transaction |-> [tx_id |-> tx_id,
                           user_phone |-> user_phone,
                           tx_type |-> tx_type,
                           amount_ngn |-> amount_ngn,
                           amount_usdc |-> amount_usdc,
                           status |-> "Pending",
                           timestamp |-> now,
                           fee |-> fee]]

\* create_transaction without the user status check.
create_transaction_ignoring_status(cfg, user_account, tx_id, user_phone, tx_type, amount_ngn, amount_usdc, fee, now) ==
    IF cfg.paused
    THEN [result |-> "ContractPaused"]
    ELSE IF amount_ngn < cfg.min_limit \/ amount_ngn > cfg.max_limit
    THEN [result |-> "TransactionLimitOutOfBounds"]
    ELSE [result |-> "Ok",
          transaction |-> [tx_id |-> tx_id,
                           user_phone |-> user_phone,
                           tx_type |-> tx_type,
                           amount_ngn |-> amount_ngn,
                           amount_usdc |-> amount_usdc,
                           status |-> "Pending",
                           timestamp |-> now,
                           fee |-> fee]]

\* create_transaction with the user status check moved before the limit
\* check.
create_transaction_status_first(cfg, user_account, tx_id, user_phone, tx_type, amount_ngn, amount_usdc, fee, now) ==
    IF cfg.paused
    THEN [result |-> "ContractPaused"]
    ELSE IF user_account.status # "Active"
    THEN [result |-> "UserSuspended"]
    ELSE IF amount_ngn < cfg.min_limit \/ amount_ngn > cfg.max_limit
    THEN [result |-> "TransactionLimitOutOfBounds"]
    ELSE [result |-> "Ok",
          transaction |-> [tx_id |-> tx_id,
                           user_phone |-> user_phone,
                           tx_type |-> tx_type,
                           amount_ngn |-> amount_ngn,
                           amount_usdc |-> amount_usdc,
                           status |-> "Pending",
                           timestamp |-> now,
                           fee |-> fee]]

\* The body of create_transaction: the error it returns, or Ok and the
\* transaction account as written.
create_transaction_handler(cfg, user_account, tx_id, user_phone, tx_type, amount_ngn, amount_usdc, fee, now) ==
    IF cfg.paused
    THEN [result |-> "ContractPaused"]
    ELSE IF amount_ngn < cfg.min_limit \/ amount_ngn > cfg.max_limit
    THEN [result |-> "TransactionLimitOutOfBounds"]
    ELSE IF user_account.status # "Active"
    THEN [result |-> "UserSuspended"]
    ELSE [result |-> "Ok",
          transaction |-> [tx_id |-> tx_id,
                           user_phone |-> user_phone,
                           tx_type |-> tx_type,
                           amount_ngn |-> amount_ngn,
                           amount_usdc |-> amount_usdc,
                           status |-> "Pending",
                           timestamp |-> now,
                           fee |-> fee]]

create_transaction_result(user, transaction_account, user_account, tx_id, user_phone, tx_type, amount_ngn, amount_usdc, fee, now) ==
    IF CreateTransaction(user, transaction_account, user_account, tx_id, user_phone) # "Ok"
    THEN CreateTransaction(user, transaction_account, user_account, tx_id, user_phone)
    ELSE create_transaction_handler(config[CONFIG_SEED], users[user_account], tx_id, user_phone,
                                    tx_type, amount_ngn, amount_usdc, fee, now).result

create_transaction(user, transaction_account, user_account, tx_id, user_phone, tx_type, amount_ngn, amount_usdc, fee, now) ==
    IF create_transaction_result(user, transaction_account, user_account, tx_id, user_phone, tx_type,
                                 amount_ngn, amount_usdc, fee, now) = "Ok"
    THEN /\ txs' = (transaction_account :>
                create_transaction_handler(config[CONFIG_SEED], users[user_account], tx_id,
                    user_phone, tx_type, amount_ngn, amount_usdc, fee, now).transaction) @@ txs
         /\ UNCHANGED << config, users >>
    ELSE UNCHANGED vars

(* ---------------------------------------------------------------------- *)
(* complete_transaction                                                    *)
(* ---------------------------------------------------------------------- *)

\* CompleteTransaction with the authority required to be the wallet of the
\* transaction's user.
CompleteTransactionByWallet(authority, transaction_account, user_account) ==
    IF transaction_account \notin DOMAIN txs \/ user_account \notin DOMAIN users
    THEN "AccountNotInitialized"
    ELSE IF txs[transaction_account].tx_id # transaction_account
            \/ txs[transaction_account].user_phone # user_account
    THEN "ConstraintSeeds"
    ELSE IF authority # users[user_account].wallet THEN "ConstraintRaw"
    ELSE "Ok"

\* The accounts of complete_transaction: both must exist; the transaction
\* account must be the address derived from its own tx_id and the user
\* account the address derived from the transaction's user_phone.  The
\* authority is any signer.
CompleteTransaction(authority, transaction_account, user_account) ==
    IF transaction_account \notin DOMAIN txs \/ user_account \notin DOMAIN users
    THEN "AccountNotInitialized"
    ELSE IF txs[transaction_account].tx_id # transaction_account
            \/ txs[transaction_account].user_phone # user_account
    THEN "ConstraintSeeds"
    ELSE "Ok"

\* complete_transaction with a saturating addition in place of the checked
\* one: on overflow total_volume becomes the largest amount.
complete_transaction_saturating(transaction, user_account) ==
    LET sum == checked_add(user_account.total_volume, transaction.amount_ngn)
    IN [result |-> "Ok",
        transaction |-> [transaction EXCEPT !.status = "Completed"],
        user_account |-> [user_account EXCEPT
                             !.total_volume = IF sum = << >> THEN U64Max ELSE sum[1]]]

\* complete_transaction marking a replayed completion: a transaction that
\* is not Pending becomes Failed.
complete_transaction_marking_replay(transaction, user_account) ==
    LET sum == checked_add(user_account.total_volume, transaction.amount_ngn)
    IN IF sum = << >>
       THEN [result |-> "Panic"]
       ELSE [result |-> "Ok",
             transaction |-> [transaction EXCEPT
                                 !.status = IF @ = "Pending" THEN "Completed" ELSE "Failed"],
             user_account |-> [user_account EXCEPT !.total_volume = sum[1]]]

\* complete_transaction stamping the user account with the transaction's
\* timestamp.
complete_transaction_restamping(transaction, user_account) ==
    LET sum == checked_add(user_account.total_volume, transaction.amount_ngn)
    IN IF sum = << >>
       THEN [result |-> "Panic"]
       ELSE [result |-> "Ok",
             transaction |-> [transaction EXCEPT !.status = "Completed"],
             user_account |-> [user_account EXCEPT !.total_volume = sum[1],
                                                   !.registered_at = transaction.timestamp]]

\* complete_transaction consuming the optional amount_usdc of the
\* transaction it completes.
complete_transaction_settling(transaction, user_account) ==
    LET sum == checked_add(user_account.total_volume, transaction.amount_ngn)
    IN IF sum = << >>
       THEN [result |-> "Panic"]
       ELSE [result |-> "Ok",
             transaction |-> [transaction EXCEPT !.status = "Completed", !.amount_usdc = << >>],
             user_account |-> [user_account EXCEPT !.total_volume = sum[1]]]

\* complete_transaction recording the completed amount as the user's
\* total_volume in place of adding it.
complete_transaction_overwriting(transaction, user_account) ==
    [result |-> "Ok",
     transaction |-> [transaction EXCEPT !.status = "Completed"],
     user_account |-> [user_account EXCEPT !.total_volume = transaction.amount_ngn]]

\* The body of complete_transaction: Panic when the unwrap of the checked
\* addition fails, else Ok and the two accounts as written.
complete_transaction_handler(transaction, user_account) ==
    LET sum == checked_add(user_account.total_volume, transaction.amount_ngn)
    IN IF sum = << >>
       THEN [result |-> "Panic"]
       ELSE [result |-> "Ok",
             transaction |-> [transaction EXCEPT !.status = "Completed"],
             user_account |-> [user_account EXCEPT !.total_volume = sum[1]]]

complete_transaction_result(authority, transaction_account, user_account) ==
    IF CompleteTransaction(authority, transaction_account, user_account) # "Ok"
    THEN CompleteTransaction(authority, transaction_account, user_account)
    ELSE complete_transaction_handler(txs[transaction_account], users[user_account]).result

complete_transaction(authority, transaction_account, user_account) ==
    IF complete_transaction_result(authority, transaction_account, user_account) = "Ok"
    THEN LET r == complete_transaction_handler(txs[transaction_account], users[user_account])
         IN /\ txs' = [txs EXCEPT ![transaction_account] = r.transaction]
            /\ users' = [users EXCEPT ![user_account] = r.user_account]
            /\ UNCHANGED config
    ELSE UNCHANGED vars

(* ---------------------------------------------------------------------- *)
(* get_user_balance                                                        *)
(* ---------------------------------------------------------------------- *)

\* The accounts of get_user_balance: user_account must exist at the address
\* derived from phone_number.
GetUserBalance(user_account, phone_number) ==
    IF user_account \notin DOMAIN users THEN "AccountNotInitialized"
    ELSE IF user_account # phone_number THEN "ConstraintSeeds"
    ELSE "Ok"

\* get_user_balance returning registered_at in place of total_volume.
get_user_balance_of_registration(user_account) ==
    [result |-> "Ok", value |-> user_account.registered_at]

\* The body of get_user_balance: Ok(user_account.total_volume).
get_user_balance_handler(user_account) ==
    [result |-> "Ok", value |-> user_account.total_volume]

get_user_balance_result(user_account, phone_number) ==
    IF GetUserBalance(user_account, phone_number) # "Ok"
    THEN GetUserBalance(user_account, phone_number)
    ELSE get_user_balance_handler(users[user_account]).result

\* No account of get_user_balance is declared mut: nothing is written.
get_user_balance(user_account, phone_number) ==
    UNCHANGED vars

(* ---------------------------------------------------------------------- *)
(* Invocations as functions of the ledger                                  *)
(* ---------------------------------------------------------------------- *)

\* A ledger is the user and transaction accounts, with ok = FALSE once an
\* invocation applied to it has failed.  The three operators below are the
\* invocations as functions from ledger to ledger, each with the account
\* addresses derived from its arguments as the seeds constraints require,
\* so that sequences of invocations can be compared.
Ledgered == [users |-> users, txs |-> txs, ok |-> TRUE]

\* complete_transaction of the transaction account t.
AfterComplete(s, t) ==
    IF ~s.ok \/ t \notin DOMAIN s.txs THEN [s EXCEPT !.ok = FALSE]
    ELSE IF s.txs[t].tx_id # t \/ s.txs[t].user_phone \notin DOMAIN s.users
    THEN [s EXCEPT !.ok = FALSE]
    ELSE LET u == s.txs[t].user_phone
             r == complete_transaction_handler(s.txs[t], s.users[u])
         IN IF r.result # "Ok" THEN [s EXCEPT !.ok = FALSE]
            ELSE [users |-> [s.users EXCEPT ![u] = r.user_account],
                  txs |-> [s.txs EXCEPT ![t] = r.transaction],
                  ok |-> TRUE]

\* register_user of phone_number.
AfterRegister(s, user, phone_number, pin_hash, now) ==
    IF ~s.ok \/ phone_number \in DOMAIN s.users THEN [s EXCEPT !.ok = FALSE]
    ELSE [s EXCEPT !.users = (phone_number :>
              register_user_handler(user, phone_number, pin_hash, now).user_account) @@ s.users]

\* create_transaction of tx_id for user_phone, under the current Config.
AfterCreate(s, tx_id, user_phone, tx_type, amount_ngn, amount_usdc, fee, now) ==
    IF ~s.ok \/ tx_id \in DOMAIN s.txs \/ user_phone \notin DOMAIN s.users
           \/ CONFIG_SEED \notin DOMAIN config
    THEN [s EXCEPT !.ok = FALSE]
    ELSE LET r == create_transaction_handler(config[CONFIG_SEED], s.users[user_phone], tx_id,
                      user_phone, tx_type, amount_ngn, amount_usdc, fee, now)
         IN IF r.result # "Ok" THEN [s EXCEPT !.ok = FALSE]
            ELSE [s EXCEPT !.txs = (tx_id :> r.transaction) @@ s.txs]

(* ---------------------------------------------------------------------- *)
(* The program                                                             *)
(* ---------------------------------------------------------------------- *)

\* The arguments offered to a handler.  When the host rejects the accounts
\* the handler is not entered and neither its arguments nor the clock are
\* read, so one value stands for all of them.
Offered(admitted, S) == IF admitted = "Ok" THEN S ELSE {CHOOSE x \in S : TRUE}

\* initialize_config with the fee rates drawn from F.
Configure(F) ==
    \E admin \in Offered(InitializeConfig, Signers),
       c \in Offered(InitializeConfig, F),
       a \in Offered(InitializeConfig, F),
       mn \in Offered(InitializeConfig, MinLimits),
       mx \in Offered(InitializeConfig, MaxLimits) :
       initialize_config(admin, c, a, mn, mx)

\* register_user with the pin hashes drawn from P and the clock from T.
Register(P, T) ==
    \E acct \in Phones, phone \in Phones :
       \E user \in Offered(RegisterUser(acct, phone), Signers),
          pin \in Offered(RegisterUser(acct, phone), P),
          now \in Offered(RegisterUser(acct, phone), T) :
          register_user(user, acct, phone, pin, now)

\* The three instructions on the accounts of registered users.
Transact ==
    \/ \E user \in Signers, tacct \in TxIds, uacct \in Phones, tx_id \in TxIds, phone \in Phones :
          \E kind \in Offered(CreateTransaction(user, tacct, uacct, tx_id, phone), TransactionType),
             amt \in Offered(CreateTransaction(user, tacct, uacct, tx_id, phone), U64),
             usdc \in Offered(CreateTransaction(user, tacct, uacct, tx_id, phone), OptU64),
             fee \in Offered(CreateTransaction(user, tacct, uacct, tx_id, phone), Fees),
             now \in Offered(CreateTransaction(user, tacct, uacct, tx_id, phone), Times) :
             create_transaction(user, tacct, uacct, tx_id, phone, kind, amt, usdc, fee, now)
    \/ \E authority \in Signers, tacct \in TxIds, uacct \in Phones :
          complete_transaction(authority, tacct, uacct)
    \/ \E acct \in Phones, phone \in Phones :
          get_user_balance(acct, phone)

\* The four instructions on user and transaction accounts.
Ledger ==
    \/ Register(PinHashes, Times)
    \/ Transact

Next ==
    \/ Configure(FeeBps)
    \/ Ledger

Spec == Init /\ [][Next]_vars

\* The program with registrations that differ in pin hash and in clock
\* reading: two pin hashes, and a clock that at registration may be ahead
\* of every transaction timestamp.
EnrolPinHashes == PinHashes \cup {8}
EnrolTimes == 0..(MaxTime + 1)

NextEnrolment ==
    \/ Configure({10000})
    \/ Register(EnrolPinHashes, EnrolTimes)
    \/ Transact

SpecEnrolment == Init /\ [][NextEnrolment]_vars

(* ---------------------------------------------------------------------- *)
(* The reserved administrative transitions                                 *)
(* ---------------------------------------------------------------------- *)

\* The program declares Config.paused and UserStatus::Suspended and has no
\* instruction that writes them.  The two transitions below are the ones the
\* specification reserves for the administrator (paused toggled, a user
\* suspended or reactivated), each behind the signer = Config.admin guard.
set_paused_result(signer, paused) ==
    IF CONFIG_SEED \notin DOMAIN config THEN "AccountNotInitialized"
    ELSE IF signer # config[CONFIG_SEED].admin THEN "Unauthorized"
    ELSE "Ok"

set_paused(signer, paused) ==
    IF set_paused_result(signer, paused) = "Ok"
    THEN /\ config' = [config EXCEPT ![CONFIG_SEED].paused = paused]
         /\ UNCHANGED << users, txs >>
    ELSE UNCHANGED vars

set_user_status_result(signer, user_account, status) ==
    IF CONFIG_SEED \notin DOMAIN config \/ user_account \notin DOMAIN users
    THEN "AccountNotInitialized"
    ELSE IF signer # config[CONFIG_SEED].admin THEN "Unauthorized"
    ELSE "Ok"

set_user_status(signer, user_account, status) ==
    IF set_user_status_result(signer, user_account, status) = "Ok"
    THEN /\ users' = [users EXCEPT ![user_account].status = status]
         /\ UNCHANGED << config, txs >>
    ELSE UNCHANGED vars

\* The program together with the reserved administrative transitions.  The
\* fee rates, which no instruction reads, are the largest allowed rate.
NextAdministered ==
    \/ Configure({10000})
    \/ Ledger
    \/ \E signer \in Signers, paused \in BOOLEAN : set_paused(signer, paused)
    \/ \E signer \in Signers, acct \in Phones, status \in UserStatus :
          set_user_status(signer, acct, status)

SpecAdministered == Init /\ [][NextAdministered]_vars

(* ---------------------------------------------------------------------- *)
(* Properties                                                              *)
(* ---------------------------------------------------------------------- *)

\* The sum of amount_ngn over the transaction accounts in S.
RECURSIVE SumAmounts(_)
SumAmounts(S) ==
    IF S = {} THEN 0
    ELSE LET t == CHOOSE x \in S : TRUE
         IN txs[t].amount_ngn + SumAmounts(S \ {t})

\* The sum of amount_ngn over the Completed transactions of a phone number.
CompletedVolume(phone) ==
    SumAmounts({t \in DOMAIN txs : txs[t].status = "Completed" /\ txs[t].user_phone = phone})

\* C1: complete_transaction on a transaction that is already Completed fails
\* with InvalidTransition and leaves the total_volume of the transaction's
\* user as it was.
SecondCompleteInvalidTransition ==
    [][\A authority \in Signers, t \in TxIds, u \in Phones :
          (/\ t \in DOMAIN txs
           /\ txs[t].status = "Completed"
           /\ CompleteTransaction(authority, t, u) = "Ok"
           /\ complete_transaction(authority, t, u))
          => (/\ complete_transaction_result(authority, t, u) = "InvalidTransition"
              /\ users'[u].total_volume = users[u].total_volume)]_vars

\* C2: in every reachable state the total_volume of every user is the sum
\* of amount_ngn over the Completed transactions whose user_phone is that
\* user's phone number.
TotalVolumeIsCompletedSum ==
    \A p \in DOMAIN users :
        users[p].total_volume = CompletedVolume(users[p].phone_number)

\* C3: in every reachable state every transaction has amount_usdc present
\* exactly when its kind is Crypto (create_transaction refuses the other
\* combinations with InvalidInput and creates nothing).
UsdcPresentIffCrypto ==
    \A t \in DOMAIN txs :
        (txs[t].amount_usdc # << >>) <=> (txs[t].tx_type = "Crypto")

\* C4: in every reachable state where the Config exists, min_limit <=
\* max_limit and both fee rates are at most 10000 (initialize_config creates
\* no Config from other arguments).
ConfigWellFormed ==
    CONFIG_SEED \in DOMAIN config =>
        /\ config[CONFIG_SEED].min_limit <= config[CONFIG_SEED].max_limit
        /\ config[CONFIG_SEED].crypto_fee_bps <= 10000
        /\ config[CONFIG_SEED].airtime_fee_bps <= 10000

\* C5: create_transaction is accepted only under an unpaused Config and with
\* min_limit <= amount_ngn <= max_limit; with an Active user and an unpaused
\* Config, amount_ngn = min_limit and amount_ngn = max_limit succeed, and
\* amount_ngn = min_limit - 1 and amount_ngn = max_limit + 1 fail with
\* TransactionLimitOutOfBounds (a failed invocation creates no record).
LimitBoundaries ==
    \A user \in Signers, t \in TxIds, u \in Phones, kind \in TransactionType,
       amt \in U64, usdc \in OptU64, fee \in Fees, now \in Times :
        CreateTransaction(user, t, u, t, u) = "Ok" =>
            LET cfg == config[CONFIG_SEED]
                r == create_transaction_result(user, t, u, t, u, kind, amt, usdc, fee, now)
            IN /\ r = "Ok" =>
                    ~cfg.paused /\ cfg.min_limit <= amt /\ amt <= cfg.max_limit
               /\ (~cfg.paused /\ users[u].status = "Active") =>
                    /\ (amt = cfg.min_limit \/ amt = cfg.max_limit) => r = "Ok"
                    /\ (amt = cfg.min_limit - 1 \/ amt = cfg.max_limit + 1) =>
                            r = "TransactionLimitOutOfBounds"

\* The completion of transaction t for user account u is admitted by the
\* host and its addition exceeds the largest amount.
OverflowingCompletion(authority, t, u) ==
    /\ CompleteTransaction(authority, t, u) = "Ok"
    /\ users[u].total_volume + txs[t].amount_ngn > U64Max

\* An overflowing completion changes neither the transaction account nor
\* the user account: a step that changes one is no such completion.
OverflowChangesNothing ==
    \/ UNCHANGED << txs, users >>
    \/ \A authority \in Signers, t \in TxIds, u \in Phones :
          ~(OverflowingCompletion(authority, t, u) /\ complete_transaction(authority, t, u))

\* C6 (as claimed): when total_volume + amount_ngn exceeds the largest u64,
\* complete_transaction fails with ArithmeticOverflow, total_volume does
\* not wrap, and neither the transaction nor the user account changes.
OverflowIsArithmeticOverflow ==
    /\ [](\A authority \in Signers, t \in TxIds, u \in Phones :
            OverflowingCompletion(authority, t, u) =>
                complete_transaction_result(authority, t, u) = "ArithmeticOverflow")
    /\ [][OverflowChangesNothing]_vars

\* C6 (amended): when total_volume + amount_ngn exceeds the largest u64,
\* complete_transaction aborts with the panic of the failed unwrap, no
\* total_volume leaves the u64 range, and neither the transaction (still
\* as it was, Pending included) nor the user account changes.
OverflowAborts ==
    /\ [](\A authority \in Signers, t \in TxIds, u \in Phones :
            OverflowingCompletion(authority, t, u) =>
                complete_transaction_result(authority, t, u) = "Panic")
    /\ [](\A p \in DOMAIN users : users[p].total_volume \in U64)
    /\ [][OverflowChangesNothing]_vars

\* C6 witness: a user has been credited and a Pending transaction of the
\* same user no longer fits: its completion is the overflowing one.
OverflowReached ==
    \E t \in DOMAIN txs, u \in DOMAIN users :
        /\ txs[t].status = "Pending"
        /\ users[u].total_volume > 0
        /\ \A authority \in Signers : OverflowingCompletion(authority, t, u)
        /\ \A authority \in Signers : complete_transaction_result(authority, t, u) = "Panic"

\* A second create reports that the address is already in use: for the
\* Config, for every registered phone number, for every existing tx id.
SecondCreateAlreadyInUse ==
    /\ CONFIG_SEED \in DOMAIN config =>
          \A admin \in Signers, c \in FeeBps, a \in FeeBps, mn \in MinLimits, mx \in MaxLimits :
              initialize_config_result(admin, c, a, mn, mx) = "AccountAlreadyInUse"
    /\ \A p \in DOMAIN users, user \in Signers, pin \in PinHashes, now \in Times :
          register_user_result(user, p, p, pin, now) = "AccountAlreadyInUse"
    /\ \A t \in DOMAIN txs, user \in Signers, u \in Phones, phone \in Phones,
          kind \in TransactionType, amt \in U64, usdc \in OptU64, fee \in Fees, now \in Times :
          create_transaction_result(user, t, u, t, phone, kind, amt, usdc, fee, now)
              = "AccountAlreadyInUse"

\* A create on a key that already has a record changes no account: a step
\* that changes one is no such create.
SecondCreateChangesNothing ==
    \/ UNCHANGED vars
    \/ /\ \A admin \in Offered(InitializeConfig, Signers),
             c \in Offered(InitializeConfig, FeeBps),
             a \in Offered(InitializeConfig, FeeBps),
             mn \in Offered(InitializeConfig, MinLimits),
             mx \in Offered(InitializeConfig, MaxLimits) :
             ~(CONFIG_SEED \in DOMAIN config /\ initialize_config(admin, c, a, mn, mx))
       /\ \A p \in DOMAIN users :
             \A user \in Offered(RegisterUser(p, p), Signers),
                pin \in Offered(RegisterUser(p, p), PinHashes),
                now \in Offered(RegisterUser(p, p), Times) :
                ~register_user(user, p, p, pin, now)
       /\ \A t \in DOMAIN txs, user \in Signers, u \in Phones, phone \in Phones :
             \A kind \in Offered(CreateTransaction(user, t, u, t, phone), TransactionType),
                amt \in Offered(CreateTransaction(user, t, u, t, phone), U64),
                usdc \in Offered(CreateTransaction(user, t, u, t, phone), OptU64),
                fee \in Offered(CreateTransaction(user, t, u, t, phone), Fees),
                now \in Offered(CreateTransaction(user, t, u, t, phone), Times) :
                ~create_transaction(user, t, u, t, phone, kind, amt, usdc, fee, now)

\* C7: a second initialize_config, a second register_user of a registered
\* phone number and a second create_transaction of an existing tx id each
\* fail with the already-in-use error and leave every field of the existing
\* record (total_volume and status included) as it was.
CreatesAreSingleShot ==
    /\ []SecondCreateAlreadyInUse
    /\ [][SecondCreateChangesNothing]_vars

\* C7 witness: the three kinds of record exist with fields a fresh create
\* would not write (a credited user, a Completed transaction), and each
\* second create is refused there.
SecondCreatesRefused ==
    /\ CONFIG_SEED \in DOMAIN config
    /\ \E p \in DOMAIN users : users[p].total_volume > 0
    /\ \E t \in DOMAIN txs : txs[t].status = "Completed"
    /\ SecondCreateAlreadyInUse

\* C8: every transaction account is created Pending; a status changes only
\* from Pending, and only to Completed or Failed; no step changes any field
\* of a transaction that is not Pending, and none removes a transaction.
TransactionStatusAbsorbing ==
    [][\A t \in TxIds :
          /\ (t \notin DOMAIN txs /\ t \in DOMAIN txs') => txs'[t].status = "Pending"
          /\ t \in DOMAIN txs =>
                /\ t \in DOMAIN txs'
                /\ txs[t].status # "Pending" => txs'[t] = txs[t]
                /\ txs'[t].status # txs[t].status =>
                      txs[t].status = "Pending" /\ txs'[t].status \in {"Completed", "Failed"}]_vars

\* C8 witness: a transaction is Completed and its user's total_volume is
\* above the sum of the Completed amounts, so complete_transaction has run
\* on a transaction that was already Completed.
CompletedTransactionCompletedAgain ==
    \E t \in DOMAIN txs :
        /\ txs[t].status = "Completed"
        /\ txs[t].user_phone \in DOMAIN users
        /\ users[txs[t].user_phone].total_volume > CompletedVolume(txs[t].user_phone)

\* C9: across every step, successful or failed, no user account disappears
\* and no total_volume decreases.
TotalVolumeNeverDecreases ==
    [][\A p \in DOMAIN users :
          /\ p \in DOMAIN users'
          /\ users'[p].total_volume >= users[p].total_volume]_vars

\* C9 witness: a user has been credited up to the point where every
\* further completion of one of the user's transactions is refused because
\* the sum would leave the u64 range.
CreditedToTheLimit ==
    \E t \in DOMAIN txs, u \in DOMAIN users :
        /\ txs[t].status = "Completed"
        /\ txs[t].user_phone = u
        /\ users[u].total_volume >= txs[t].amount_ngn
        /\ users[u].total_volume + txs[t].amount_ngn > U64Max
        /\ \A authority \in Signers : complete_transaction_result(authority, t, u) = "Panic"

\* Config exists and is paused.
Paused == CONFIG_SEED \in DOMAIN config /\ config[CONFIG_SEED].paused

\* Under a paused Config no create_transaction succeeds, and every one the
\* host admits returns ContractPaused.
PausedRefusesCreates ==
    Paused =>
        \A user \in Signers, tacct \in TxIds, uacct \in Phones, tx_id \in TxIds, phone \in Phones :
            \A kind \in Offered(CreateTransaction(user, tacct, uacct, tx_id, phone), TransactionType),
               amt \in Offered(CreateTransaction(user, tacct, uacct, tx_id, phone), U64),
               usdc \in Offered(CreateTransaction(user, tacct, uacct, tx_id, phone), OptU64),
               fee \in Offered(CreateTransaction(user, tacct, uacct, tx_id, phone), Fees),
               now \in Offered(CreateTransaction(user, tacct, uacct, tx_id, phone), Times) :
               LET r == create_transaction_result(user, tacct, uacct, tx_id, phone, kind,
                                                  amt, usdc, fee, now)
               IN /\ r # "Ok"
                  /\ CreateTransaction(user, tacct, uacct, tx_id, phone) = "Ok"
                        => r = "ContractPaused"

\* Under a paused Config get_user_balance of an existing user succeeds with
\* the user's total_volume.
PausedAnswersBalance ==
    Paused =>
        \A p \in DOMAIN users :
            /\ get_user_balance_result(p, p) = "Ok"
            /\ get_user_balance_handler(users[p]).value = users[p].total_volume

\* C10: while Config.paused is true every create_transaction fails, with
\* ContractPaused once the host has admitted its accounts, and no step
\* adds a transaction account; get_user_balance of an existing user still
\* succeeds and returns the user's total_volume.
PausedGate ==
    /\ []PausedRefusesCreates
    /\ []PausedAnswersBalance
    /\ [][Paused => DOMAIN txs' = DOMAIN txs]_vars

\* C10 witness: the Config is paused after a user has been credited; a
\* create_transaction for that user on a free tx id is admitted by the host
\* and refused with ContractPaused, and the balance is still answered.
PausedAfterCredit ==
    /\ Paused
    /\ \E u \in DOMAIN users, t \in TxIds \ DOMAIN txs, user \in Signers :
          /\ users[u].total_volume > 0
          /\ users[u].status = "Active"
          /\ CreateTransaction(user, t, u, t, u) = "Ok"
          /\ \A fee \in Fees, now \in Times :
                create_transaction_result(user, t, u, t, u, "Airtime",
                    config[CONFIG_SEED].min_limit, << >>, fee, now) = "ContractPaused"
          /\ get_user_balance_result(u, u) = "Ok"

\* A create_transaction the host admits, for a user that is not Active,
\* under an unpaused Config and with the amount within the limits.
SuspendedCreate(user, t, u, amt) ==
    /\ CreateTransaction(user, t, u, t, u) = "Ok"
    /\ users[u].status # "Active"
    /\ ~config[CONFIG_SEED].paused
    /\ config[CONFIG_SEED].min_limit <= amt
    /\ amt <= config[CONFIG_SEED].max_limit

\* Every such create_transaction returns UserSuspended.
SuspendedCreateRefused ==
    \A user \in Signers, t \in TxIds, u \in Phones, kind \in TransactionType,
       amt \in U64, usdc \in OptU64, fee \in Fees, now \in Times :
        SuspendedCreate(user, t, u, amt) =>
            create_transaction_result(user, t, u, t, u, kind, amt, usdc, fee, now) = "UserSuspended"

\* Such a create_transaction creates no transaction account and changes no
\* account: a step that changes one is no such create.
SuspendedCreateChangesNothing ==
    \/ UNCHANGED vars
    \/ \A user \in Signers, t \in TxIds, u \in Phones :
          \A kind \in Offered(CreateTransaction(user, t, u, t, u), TransactionType),
             amt \in Offered(CreateTransaction(user, t, u, t, u), U64),
             usdc \in Offered(CreateTransaction(user, t, u, t, u), OptU64),
             fee \in Offered(CreateTransaction(user, t, u, t, u), Fees),
             now \in Offered(CreateTransaction(user, t, u, t, u), Times) :
             ~(/\ SuspendedCreate(user, t, u, amt)
               /\ create_transaction(user, t, u, t, u, kind, amt, usdc, fee, now))

\* C11: when the user account at user_phone has a status other than Active,
\* the Config is unpaused and the amount is within the limits,
\* create_transaction fails with UserSuspended, creates no transaction
\* account and changes no existing account.
SuspendedUserGate ==
    /\ []SuspendedCreateRefused
    /\ [][SuspendedCreateChangesNothing]_vars

\* C11 witness: a user was credited and then suspended; under the unpaused
\* Config a create_transaction for that user on a free tx id, with the
\* amount at the lower limit, is admitted by the host and refused with
\* UserSuspended.
SuspendedAfterCredit ==
    \E u \in DOMAIN users, t \in TxIds \ DOMAIN txs, user \in Signers :
        /\ users[u].total_volume > 0
        /\ users[u].status = "Suspended"
        /\ SuspendedCreate(user, t, u, config[CONFIG_SEED].min_limit)
        /\ \A kind \in TransactionType, usdc \in OptU64, fee \in Fees, now \in Times :
              create_transaction_result(user, t, u, t, u, kind,
                  config[CONFIG_SEED].min_limit, usdc, fee, now) = "UserSuspended"

\* get_user_balance of a registered phone number succeeds and returns the
\* total_volume of the account stored for that phone number.
BalanceOfRegistered ==
    \A p \in DOMAIN users :
        /\ users[p].phone_number = p
        /\ get_user_balance_result(p, p) = "Ok"
        /\ get_user_balance_handler(users[p]).value = users[p].total_volume

\* A step of get_user_balance changes no account.
BalanceReadOnly ==
    \A acct \in Phones, phone \in Phones :
        get_user_balance(acct, phone) => UNCHANGED << config, users, txs >>

\* C12 (as claimed): get_user_balance is read-only; for a registered phone
\* number it returns that account's total_volume and changes no account;
\* for a phone number with no account it fails with NotFound.
BalanceOrNotFound ==
    /\ []BalanceOfRegistered
    /\ [](\A p \in Phones \ DOMAIN users : get_user_balance_result(p, p) = "NotFound")
    /\ [][BalanceReadOnly]_vars

\* C12 (amended): get_user_balance is read-only; for a registered phone
\* number it returns that account's total_volume and changes no account;
\* for a phone number with no account the host rejects the invocation with
\* AccountNotInitialized before the handler runs.
BalanceOrNotInitialized ==
    /\ []BalanceOfRegistered
    /\ [](\A p \in Phones \ DOMAIN users :
            get_user_balance_result(p, p) = "AccountNotInitialized")
    /\ [][BalanceReadOnly]_vars

\* C12 witness: one phone number is registered and credited, and its
\* balance is answered with the credited volume; another has no account and
\* its balance is refused.
BalanceAnsweredAndRefused ==
    /\ \E p \in DOMAIN users :
          /\ users[p].total_volume > 0
          /\ get_user_balance_result(p, p) = "Ok"
          /\ get_user_balance_handler(users[p]).value = users[p].total_volume
    /\ \E p \in Phones \ DOMAIN users :
          get_user_balance_result(p, p) = "AccountNotInitialized"

\* No step removes the Config account.
ConfigKept ==
    CONFIG_SEED \in DOMAIN config => CONFIG_SEED \in DOMAIN config'

\* No step of register_user, create_transaction, complete_transaction or
\* get_user_balance changes the Config: a step that changes it is none of
\* them.
LedgerKeepsConfig ==
    UNCHANGED config \/ ~Ledger

\* No invocation signed by someone other than Config.admin changes the
\* Config: a step that changes an existing Config is no initialize_config,
\* set_paused or set_user_status of such a signer.
OthersKeepConfig ==
    \/ UNCHANGED config
    \/ CONFIG_SEED \notin DOMAIN config
    \/ \A signer \in Signers \ {config[CONFIG_SEED].admin} :
          /\ \A c \in FeeBps, a \in FeeBps, mn \in MinLimits, mx \in MaxLimits :
                ~initialize_config(signer, c, a, mn, mx)
          /\ \A paused \in BOOLEAN : ~set_paused(signer, paused)
          /\ \A acct \in Phones, status \in UserStatus : ~set_user_status(signer, acct, status)

\* C13: once created the Config is never destroyed, and no invocation whose
\* signer is not Config.admin changes any of its six fields; register_user,
\* create_transaction, complete_transaction and get_user_balance leave the
\* Config as it was.
ConfigOnlyByAdmin ==
    /\ [][ConfigKept]_vars
    /\ [][LedgerKeepsConfig]_vars
    /\ [][OthersKeepConfig]_vars

\* C13 witness: the Config exists and has been changed by its administrator
\* (it is paused), a user was registered and credited after it was created,
\* and every other signer is refused the administrative transitions.
ConfigOutlivesLedger ==
    /\ CONFIG_SEED \in DOMAIN config
    /\ config[CONFIG_SEED].paused
    /\ \E p \in DOMAIN users : users[p].total_volume > 0
    /\ \E signer \in Signers \ {config[CONFIG_SEED].admin} :
          /\ set_paused_result(signer, FALSE) = "Unauthorized"
          /\ initialize_config_result(signer, 10000, 10000, 1, U64Max - 1) = "AccountAlreadyInUse"

\* The sum of the serialized sizes of the first n fields of a layout.
RECURSIVE SerializedSize(_, _)
SerializedSize(fields, n) ==
    IF n = 0 THEN 0 ELSE size_of(fields[n].type) + SerializedSize(fields, n - 1)

\* The names of the fields of a layout.
FieldNames(fields) == {fields[i].name : i \in 1..Len(fields)}

\* Every stored account has exactly the fields of its layout, and each
\* declared allocation size is the discriminator plus the serialized sizes
\* of those fields.
AllocationIsLayout ==
    /\ \A p \in DOMAIN users : DOMAIN users[p] = FieldNames(UserAccountFields)
    /\ \A t \in DOMAIN txs : DOMAIN txs[t] = FieldNames(TransactionAccountFields)
    /\ \A c \in DOMAIN config : DOMAIN config[c] = FieldNames(ConfigFields)
    /\ UserAccount_LEN = DISCRIMINATOR + SerializedSize(UserAccountFields, Len(UserAccountFields))
    /\ TransactionAccount_LEN
          = DISCRIMINATOR + SerializedSize(TransactionAccountFields, Len(TransactionAccountFields))
    /\ Config_LEN = DISCRIMINATOR + SerializedSize(ConfigFields, Len(ConfigFields))

\* C14 (as claimed): the allocation size of each account is the 8-byte
\* discriminator plus the serialized sizes of its fields, and the sizes are
\* User 103 bytes, Transaction 64 bytes, Config 61 bytes.
SizesAsStated ==
    /\ AllocationIsLayout
    /\ UserAccount_LEN = 103
    /\ TransactionAccount_LEN = 64
    /\ Config_LEN = 61

\* C14 (amended): the allocation size of each account is the 8-byte
\* discriminator plus the serialized sizes of its fields, and the sizes are
\* User 103 bytes, Transaction 73 bytes, Config 61 bytes.
SizesAsDeclared ==
    /\ AllocationIsLayout
    /\ UserAccount_LEN = 103
    /\ TransactionAccount_LEN = 73
    /\ Config_LEN = 61

\* C14 witness: an account of each kind has been allocated, the transaction
\* both with and without its optional amount_usdc.
EveryKindAllocated ==
    /\ CONFIG_SEED \in DOMAIN config
    /\ DOMAIN users # {}
    /\ \E t \in DOMAIN txs : txs[t].amount_usdc = << >>
    /\ \E t \in DOMAIN txs : txs[t].amount_usdc # << >>

\* A successful register_user(user, phone, pin_hash) at clock reading now
\* leaves at phone the account with exactly these fields: a step that
\* changes users is no register_user that leaves anything else.
RegistrationWritesFields ==
    \/ UNCHANGED users
    \/ \A phone \in Phones, user \in Signers, pin \in EnrolPinHashes, now \in EnrolTimes :
          (/\ register_user_result(user, phone, phone, pin, now) = "Ok"
           /\ register_user(user, phone, phone, pin, now))
          => /\ phone \notin DOMAIN users
             /\ users'[phone] = [phone_number |-> phone,
                                 wallet |-> user,
                                 pin_hash |-> pin,
                                 total_volume |-> 0,
                                 registered_at |-> now,
                                 status |-> "Active"]

\* No step changes the phone_number, wallet, pin_hash or registered_at of
\* an existing user account, or removes the account.
RegistrationFieldsKept ==
    \A p \in DOMAIN users :
        /\ p \in DOMAIN users'
        /\ users'[p].phone_number = users[p].phone_number
        /\ users'[p].wallet = users[p].wallet
        /\ users'[p].pin_hash = users[p].pin_hash
        /\ users'[p].registered_at = users[p].registered_at

\* C15: a successful register_user(signer, phone, credential_hash) creates
\* the user account keyed by phone with phone_number = phone, wallet =
\* signer, pin_hash = credential_hash, total_volume = 0 and status = Active
\* (and registered_at = the clock reading); afterwards no step changes that
\* account's phone_number, wallet, pin_hash or registered_at.
RegistrationIsPermanent ==
    /\ [][RegistrationWritesFields]_vars
    /\ [][RegistrationFieldsKept]_vars

\* C15 witness: two users registered with different pin hashes, one of
\* them at a clock reading no transaction carries; that one has since been
\* credited by a transaction stamped with another reading, and a further
\* register_user of its phone number is refused.
RegisteredThenCredited ==
    \E p \in DOMAIN users, q \in DOMAIN users, t \in DOMAIN txs :
        /\ users[p].pin_hash # users[q].pin_hash
        /\ users[p].phone_number = p
        /\ txs[t].user_phone = p
        /\ txs[t].status = "Completed"
        /\ txs[t].timestamp # users[p].registered_at
        /\ users[p].total_volume > 0
        /\ \A user \in Signers, pin \in EnrolPinHashes, now \in EnrolTimes :
              register_user_result(user, p, p, pin, now) = "AccountAlreadyInUse"

\* A successful complete_transaction on the Pending transaction t with the
\* user account u: u is the account of t.user_phone, t becomes Completed
\* and nothing else of it changes, u.total_volume grows by t.amount_ngn
\* and nothing else of it changes, and no other account changes.
PendingCompletionEffect ==
    \/ UNCHANGED vars
    \/ \A authority \in Signers, t \in DOMAIN txs, u \in Phones :
          (/\ txs[t].status = "Pending"
           /\ complete_transaction_result(authority, t, u) = "Ok"
           /\ complete_transaction(authority, t, u))
          => /\ u = txs[t].user_phone
             /\ users[u].phone_number = txs[t].user_phone
             /\ txs' = [txs EXCEPT ![t].status = "Completed"]
             /\ users' = [users EXCEPT ![u].total_volume = users[u].total_volume + txs[t].amount_ngn]
             /\ users'[u].total_volume \in U64
             /\ config' = config

\* C16: a successful complete_transaction on a Pending transaction t sets
\* t.status to Completed and increases the total_volume of exactly the user
\* whose phone number is t.user_phone by exactly t.amount_ngn; every other
\* user account, every other transaction account, every other field of t
\* and of that user, and the Config are unchanged.
PendingCompletionFrame ==
    [][PendingCompletionEffect]_vars

\* C16 witness: one transaction, carrying an amount_usdc, has been
\* completed exactly once, its user holding exactly its amount; another
\* user is still at zero and another transaction is still Pending.
CompletedOnceAmongOthers ==
    \E t \in DOMAIN txs, s \in DOMAIN txs, p \in DOMAIN users, q \in DOMAIN users :
        /\ t # s /\ p # q
        /\ txs[t].status = "Completed" /\ txs[t].user_phone = p
        /\ txs[t].amount_usdc # << >>
        /\ users[p].total_volume = txs[t].amount_ngn
        /\ users[q].total_volume = 0
        /\ txs[s].status = "Pending"

\* The completion of every Pending transaction whose amount still fits its
\* user's total_volume succeeds for every signer, and whatever the result
\* of a completion is, it is the same for every signer.
AnySignerCompletes ==
    \A t \in DOMAIN txs, u \in Phones, authority \in Signers :
        /\ (/\ txs[t].status = "Pending"
            /\ u = txs[t].user_phone
            /\ u \in DOMAIN users
            /\ users[u].total_volume + txs[t].amount_ngn <= U64Max)
           => complete_transaction_result(authority, t, u) = "Ok"
        /\ \A other \in Signers :
              complete_transaction_result(authority, t, u) = complete_transaction_result(other, t, u)

\* A step is a completion signed by one signer exactly when it is the same
\* completion signed by any other.
SignerLeavesNoTrace ==
    \/ UNCHANGED vars
    \/ \A t \in TxIds, u \in Phones, authority \in Signers, other \in Signers :
          complete_transaction(authority, t, u) <=> complete_transaction(other, t, u)

\* C17: complete_transaction does not gate on the signer's identity: for a
\* Pending transaction (whose amount fits) it succeeds for every signing
\* principal, one that is neither Config.admin nor the wallet of the
\* transaction's user included, and with the same effect.
CompletionOpenToAnySigner ==
    /\ []AnySignerCompletes
    /\ [][SignerLeavesNoTrace]_vars

\* C17 witness: a Pending transaction of a registered user, and a signer
\* who is neither the Config's admin nor that user's wallet, whose
\* complete_transaction of it succeeds.
StrangerCompletes ==
    \E t \in DOMAIN txs, authority \in Signers :
        /\ txs[t].status = "Pending"
        /\ txs[t].user_phone \in DOMAIN users
        /\ CONFIG_SEED \in DOMAIN config
        /\ authority # config[CONFIG_SEED].admin
        /\ authority # users[txs[t].user_phone].wallet
        /\ complete_transaction_result(authority, t, txs[t].user_phone) = "Ok"

\* C18: create_transaction applies its guards in the order paused, amount
\* limits, user status: of every create_transaction the host admits the
\* result is ContractPaused if the Config is paused, otherwise
\* TransactionLimitOutOfBounds if the amount is out of bounds, otherwise
\* UserSuspended if the user is not Active, otherwise Ok.
GuardOrder ==
    \A user \in Signers, t \in TxIds, u \in Phones, kind \in TransactionType,
       amt \in U64, usdc \in OptU64, fee \in Fees, now \in Times :
        CreateTransaction(user, t, u, t, u) = "Ok" =>
            create_transaction_result(user, t, u, t, u, kind, amt, usdc, fee, now)
                = IF config[CONFIG_SEED].paused
                  THEN "ContractPaused"
                  ELSE IF amt < config[CONFIG_SEED].min_limit \/ amt > config[CONFIG_SEED].max_limit
                  THEN "TransactionLimitOutOfBounds"
                  ELSE IF users[u].status # "Active"
                  THEN "UserSuspended"
                  ELSE "Ok"

\* C18 witness: the three guards fail at once (the Config is paused, the
\* user is suspended, the amount is below min_limit) for a create the host
\* admits, and the result is ContractPaused.
AllGuardsFail ==
    \E u \in DOMAIN users, t \in TxIds \ DOMAIN txs, user \in Signers, amt \in U64 :
        /\ Paused
        /\ users[u].status = "Suspended"
        /\ amt < config[CONFIG_SEED].min_limit
        /\ CreateTransaction(user, t, u, t, u) = "Ok"
        /\ \A kind \in TransactionType, usdc \in OptU64, fee \in Fees, now \in Times :
              create_transaction_result(user, t, u, t, u, kind, amt, usdc, fee, now)
                  = "ContractPaused"

\* Every transaction account stored under the key k has tx_id = k, and its
\* user_phone is the phone number of an existing user account, stored
\* under that phone number.
TransactionsReferToUsers ==
    /\ \A p \in DOMAIN users : users[p].phone_number = p
    /\ \A k \in DOMAIN txs :
          /\ txs[k].tx_id = k
          /\ txs[k].user_phone \in DOMAIN users
          /\ users[txs[k].user_phone].phone_number = txs[k].user_phone

\* A step that adds the transaction account k found the user account of
\* its user_phone Active; a step that raises the total_volume of a user
\* account raises that of the user_phone of some transaction, and of no
\* other user.
CreditedIsChecked ==
    /\ \A k \in DOMAIN txs' \ DOMAIN txs :
          /\ txs'[k].user_phone \in DOMAIN users
          /\ users[txs'[k].user_phone].status = "Active"
    /\ \A p \in DOMAIN users :
          users'[p].total_volume # users[p].total_volume =>
              /\ \E k \in DOMAIN txs :
                    /\ txs[k].user_phone = p
                    /\ users'[p].total_volume = users[p].total_volume + txs[k].amount_ngn
              /\ \A q \in DOMAIN users \ {p} : users'[q] = users[q]

\* C19: in every reachable state every transaction's user_phone is the
\* phone number of an existing user account and the account stored under
\* the key tx_id has its tx_id field equal to that key; hence the user
\* credited by complete_transaction exists and is the one checked as Active
\* when the transaction was created.
ReferentialIntegrity ==
    /\ []TransactionsReferToUsers
    /\ [][CreditedIsChecked]_vars

\* C19 witness: two users and two transactions, one transaction of each
\* user; one is Completed and its user, and only its user, is credited
\* with its amount.
EachUserOwnTransaction ==
    \E k \in DOMAIN txs, l \in DOMAIN txs :
        /\ txs[k].user_phone # txs[l].user_phone
        /\ txs[k].status = "Completed"
        /\ txs[l].status = "Pending"
        /\ users[txs[k].user_phone].total_volume = txs[k].amount_ngn
        /\ users[txs[l].user_phone].total_volume = 0

\* The ledger functions are the instructions: a step of a successful
\* complete_transaction, register_user or create_transaction ends in the
\* ledger the function gives.
LedgerFunctionsAgree ==
    \/ UNCHANGED vars
    \/ /\ \A authority \in Signers, t \in TxIds, u \in Phones :
             (/\ complete_transaction_result(authority, t, u) = "Ok"
              /\ complete_transaction(authority, t, u))
             => AfterComplete(Ledgered, t) = [users |-> users', txs |-> txs', ok |-> TRUE]
       /\ \A p \in Phones \ DOMAIN users, user \in Signers, pin \in PinHashes, now \in Times :
             (/\ register_user_result(user, p, p, pin, now) = "Ok"
              /\ register_user(user, p, p, pin, now))
             => AfterRegister(Ledgered, user, p, pin, now)
                    = [users |-> users', txs |-> txs', ok |-> TRUE]
       /\ \A user \in Signers, t \in TxIds \ DOMAIN txs, u \in Phones :
             \A kind \in Offered(CreateTransaction(user, t, u, t, u), TransactionType),
                amt \in Offered(CreateTransaction(user, t, u, t, u), U64),
                usdc \in Offered(CreateTransaction(user, t, u, t, u), OptU64),
                fee \in Offered(CreateTransaction(user, t, u, t, u), Fees),
                now \in Offered(CreateTransaction(user, t, u, t, u), Times) :
                (/\ create_transaction_result(user, t, u, t, u, kind, amt, usdc, fee, now) = "Ok"
                 /\ create_transaction(user, t, u, t, u, kind, amt, usdc, fee, now))
                => AfterCreate(Ledgered, t, u, kind, amt, usdc, fee, now)
                       = [users |-> users', txs |-> txs', ok |-> TRUE]

\* When the six sequences ending in the ledgers s1..s6 all succeeded, the
\* six ledgers are one.
SameWhenAllSucceed(s1, s2, s3, s4, s5, s6) ==
    (s1.ok /\ s2.ok /\ s3.ok /\ s4.ok /\ s5.ok /\ s6.ok)
        => (s1 = s2 /\ s2 = s3 /\ s3 = s4 /\ s4 = s5 /\ s5 = s6)

\* A transaction id outside those the two completions are about.
OtherTxId == MaxTx + 1

\* For two distinct Pending transactions: the two orders of completing
\* them, when both succeed, end in the same ledger; and so do the six
\* sequences that put a register_user of an unregistered phone number, or a
\* create_transaction of another tx id, before, between or after them.
CompletionsCommute ==
    \A t1 \in DOMAIN txs, t2 \in DOMAIN txs :
        (t1 # t2 /\ txs[t1].status = "Pending" /\ txs[t2].status = "Pending") =>
            /\ LET a == AfterComplete(AfterComplete(Ledgered, t1), t2)
                   b == AfterComplete(AfterComplete(Ledgered, t2), t1)
               IN (a.ok /\ b.ok) => a = b
            /\ \A p \in Phones \ DOMAIN users, user \in Signers, pin \in PinHashes, now \in Times :
                  SameWhenAllSucceed(
                      AfterComplete(AfterComplete(AfterRegister(Ledgered, user, p, pin, now), t1), t2),
                      AfterComplete(AfterRegister(AfterComplete(Ledgered, t1), user, p, pin, now), t2),
                      AfterRegister(AfterComplete(AfterComplete(Ledgered, t1), t2), user, p, pin, now),
                      AfterComplete(AfterComplete(AfterRegister(Ledgered, user, p, pin, now), t2), t1),
                      AfterComplete(AfterRegister(AfterComplete(Ledgered, t2), user, p, pin, now), t1),
                      AfterRegister(AfterComplete(AfterComplete(Ledgered, t2), t1), user, p, pin, now))
            /\ \A u \in Phones, kind \in TransactionType, amt \in U64, usdc \in OptU64,
                  fee \in Fees, now \in Times :
                  SameWhenAllSucceed(
                      AfterComplete(AfterComplete(AfterCreate(Ledgered, OtherTxId, u, kind, amt, usdc, fee, now), t1), t2),
                      AfterComplete(AfterCreate(AfterComplete(Ledgered, t1), OtherTxId, u, kind, amt, usdc, fee, now), t2),
                      AfterCreate(AfterComplete(AfterComplete(Ledgered, t1), t2), OtherTxId, u, kind, amt, usdc, fee, now),
                      AfterComplete(AfterComplete(AfterCreate(Ledgered, OtherTxId, u, kind, amt, usdc, fee, now), t2), t1),
                      AfterComplete(AfterCreate(AfterComplete(Ledgered, t2), OtherTxId, u, kind, amt, usdc, fee, now), t1),
                      AfterCreate(AfterComplete(AfterComplete(Ledgered, t2), t1), OtherTxId, u, kind, amt, usdc, fee, now))

\* C20: completions commute: for two distinct Pending transactions, of the
\* same user or of different users, complete_transaction on them in either
\* order, when both succeed, gives the same user and transaction accounts;
\* and a create_transaction or register_user on other keys before, between
\* or after them does not change that final state.
CompletionOrderIrrelevant ==
    /\ []CompletionsCommute
    /\ [][LedgerFunctionsAgree]_vars

\* C20 witness: two Pending transactions of one user with different
\* amounts, both of which fit; another phone number is unregistered; the
\* two orders of completing them, with that phone number registered in
\* between, succeed and credit the user with both amounts.
TwoPendingOfOneUser ==
    \E t1 \in DOMAIN txs, t2 \in DOMAIN txs, p \in Phones \ DOMAIN users,
       user \in Signers, pin \in PinHashes, now \in Times :
        /\ txs[t1].status = "Pending" /\ txs[t2].status = "Pending"
        /\ txs[t1].user_phone = txs[t2].user_phone
        /\ txs[t1].amount_ngn # txs[t2].amount_ngn
        /\ LET a == AfterComplete(AfterRegister(AfterComplete(Ledgered, t1), user, p, pin, now), t2)
               b == AfterComplete(AfterRegister(AfterComplete(Ledgered, t2), user, p, pin, now), t1)
           IN /\ a.ok /\ b.ok /\ a = b
              /\ a.users[txs[t1].user_phone].total_volume
                    = txs[t1].amount_ngn + txs[t2].amount_ngn
====
